---- MODULE Spec2Model ----
(***************************************************************************)
(* State-machine model of the live-feed / capture orchestrator of the      *)
(* service-station dashboard (src/src/components/LiveFeed.tsx) and of the  *)
(* cost aggregation of the application shell (src/src/App.tsx), with the  *)
(* sensor-data hook (src/unnamed/part_000) and the auto-save of the        *)
(* diagnostics panel (src/unnamed/part_002).                               *)
(*                                                                         *)
(* React state is modelled by one variable per useState / useRef cell.     *)
(* A handler is one action; an await inside a handler splits it into the   *)
(* step that runs up to the await and the step that resumes after it, the  *)
(* pending continuation being kept in a task set together with the values  *)
(* its closure captured when it was created.                               *)
(***************************************************************************)
EXTENDS Integers, Sequences, FiniteSets, TLC

(* ------------------------------------------------------------------ *)
(* Bounds of the model                                                *)
(* ------------------------------------------------------------------ *)
MaxActivations == 1
MaxSwitches == 1
MaxDevices == 2
MaxPollsInFlight == 1
MaxInFlight == 2
MaxTimers == 2
MaxSent == 2
MaxRuns == 1
MaxCount == 2
MaxVersion == 3
MaxHookRuns == 1
MaxFetches == 1
MaxSaves == 2

(* ------------------------------------------------------------------ *)
(* Fixed data of the program                                          *)
(* ------------------------------------------------------------------ *)
blocksList == <<"front", "left", "right", "brake">>

Block == {blocksList[i] : i \in 1..Len(blocksList)}

\* The <select> of the source selector offers exactly these three values;
\* 'rpi' is in the type of the state cell but no control ever sets it.
VideoSources == {"none", "pi", "webcam"}

NoStream == [act |-> 0, station |-> "none", device |-> 0]

NoDevice == 0

VARIABLES
    videoSource,        \* useState 'none' | 'pi' | 'webcam'
    stationWebcams,     \* per station: stream, selectedDeviceId, loading, error
    availableWebcams,   \* number of enumerated video input devices
    liveStreams,        \* media streams whose tracks have not been stopped
    webcamTasks,        \* pending continuations of the webcam code
    effectStreams,      \* the stream of every station as the [videoSource] effect closure saw it
    activations,        \* number of times the webcam source was activated
    switches,           \* number of per-station device switches
    pollTimer,          \* TRUE while the 500 ms interval of the poll effect is set
    pollsInFlight,      \* poll callbacks awaiting the four station fetches
    legacyInFlight,     \* poll callbacks awaiting the latest-detection fetch
    stationPiFeeds,     \* per station: last frame written by a poll, or NoImage
    stationConnectionStatus, \* per station: connected, lastUpdate
    piImage,            \* legacy shared feed, annotated image
    piRawImage,         \* legacy shared feed, clean image
    piStatus,           \* aggregate status string
    lastPoll,           \* the responses and the clock reading of the last completed poll
    blocks,             \* per station: beforeImage, afterImage, loading, analysisResult
    inflight,           \* analysis requests sent and not yet answered
    sent,               \* number of analysis requests sent so far
    lastAnalysis,       \* the answer that was handled last (a failed one before the first)
    lastCapture,        \* how the latest direct call of captureFromFeed ended
    autoCapturing,      \* useState boolean
    currentAutoStation, \* useState Block | null
    autoCaptureTimerRef, \* useRef: id of the interval it holds, 0 for null
    intervals,          \* the auto-capture intervals that are set and not cleared
    runs,               \* number of auto-capture runs started so far
    lastStart,          \* how the latest call of startAutoCapture ended
    runOutcome,         \* how the latest run ended, or that it is still running
    autoLog,            \* stations for which the latest run called captureFromFeed
    feedAnalysis,       \* App: per-station analysis record
    total_cost,         \* App: serviceRecord.total_cost
    activeTab,          \* App: useState, the tab whose content is rendered
    storedRecord,       \* version of the service_records row in the database
    hookRun,            \* useSensorData: number of the effect run that is subscribed, 0 for none
    hookRuns,           \* number of effect runs of useSensorData so far
    sensorData,         \* useSensorData: version of the row it holds, 0 for null
    fetches,            \* select queries of the hook sent and not yet settled
    pushes,             \* change notifications on their way to the hook's channel
    isAutoSaving,       \* DiagnosticsPanel: useState boolean
    autoSaveTimerRef,   \* DiagnosticsPanel: useRef, id of the interval it holds, 0 for null
    saveIntervals,      \* the auto-save intervals that are set and not cleared
    saveRequests,       \* save requests sent and not yet answered
    saves,              \* number of save requests sent so far
    lastSaveTime,       \* DiagnosticsPanel: useState, TRUE once a save was acknowledged
    saveError,          \* DiagnosticsPanel: useState string | null
    lastSave            \* the latest save: what it submitted and what was displayed then

webcamVars == <<stationWebcams, availableWebcams, liveStreams, webcamTasks,
                effectStreams, activations, switches>>

pollVars == <<pollTimer, pollsInFlight, legacyInFlight, stationPiFeeds,
              stationConnectionStatus, piImage, piRawImage, piStatus, lastPoll>>

captureVars == <<blocks, inflight, sent, lastAnalysis, lastCapture>>

autoVars == <<autoCapturing, currentAutoStation, autoCaptureTimerRef, intervals,
              runs, lastStart, runOutcome, autoLog>>

costVars == <<feedAnalysis, total_cost>>

sensorVars == <<storedRecord, hookRun, hookRuns, sensorData, fetches, pushes>>

saveVars == <<isAutoSaving, autoSaveTimerRef, saveIntervals, saveRequests, saves,
              lastSaveTime, saveError, lastSave>>

panelVars == <<activeTab, sensorVars, saveVars>>

liveFeedVars == <<videoSource, webcamVars, pollVars, captureVars, autoVars>>

vars == <<videoSource, webcamVars, pollVars, captureVars, autoVars, costVars, panelVars>>

otherThanWebcam == <<pollVars, captureVars, autoVars, costVars, panelVars>>

otherThanPoll == <<webcamVars, captureVars, autoVars, costVars, panelVars>>

(* ------------------------------------------------------------------ *)
(* Per-station webcam state                                           *)
(* ------------------------------------------------------------------ *)
InitStationWebcam == [stream |-> NoStream, selectedDeviceId |-> NoDevice,
                      loading |-> FALSE, error |-> "null"]

\* stopStationWebcam, the state update: stream: null, loading: false, error: null
StoppedWebcam(w) == [w EXCEPT !.stream = NoStream, !.loading = FALSE, !.error = "null"]

\* stopStationWebcam, the track.stop() part: the stream it stops is the one
\* its closure sees (closureStreams), not necessarily the one in the state.
StoppedTracks(closureStreams, stations) ==
    {closureStreams[s] : s \in stations} \ {NoStream}

\* initWebcams, the default device of the k-th station (1-based k here):
\* videoDevices[k] if it exists, else videoDevices[0].
DefaultDevice(k, n) == IF k <= n THEN k ELSE 1

StationIndex(s) == CHOOSE i \in 1..Len(blocksList) : blocksList[i] = s

StreamsOf(webcams) == [s \in Block |-> webcams[s].stream]

(* ------------------------------------------------------------------ *)
(* Pending continuations of the webcam code.  id > 0 is the number of  *)
(* the source activation that started the chain, id < 0 the number of  *)
(* the device switch; sel is the selectedDeviceId of every station as  *)
(* the closure that created the task saw it.                           *)
(* ------------------------------------------------------------------ *)
Task(kind, id, station, device, sel) ==
    [kind |-> kind, id |-> id, station |-> station, device |-> device, sel |-> sel]

NoSel == [s \in Block |-> NoDevice]

Stream(t, dev) == [act |-> t.id, station |-> t.station, device |-> dev]

\* startStationWebcam up to its await: loading: true, error: null
StartingWebcam(w) == [w EXCEPT !.loading = TRUE, !.error = "null"]

\* startStationWebcam after a successful getUserMedia: stream, loading: false
OpenedWebcam(w, stream) == [w EXCEPT !.stream = stream, !.loading = FALSE]

\* startStationWebcam, the catch branch: error: errorMsg, loading: false
FailedWebcam(w, errorMsg) == [w EXCEPT !.error = errorMsg, !.loading = FALSE]

\* Lines 200-204: the message for the name of the error getUserMedia threw.
ErrorMessage(errName) ==
    IF errName = "NotReadableError" THEN "Camera is in use by another app"
    ELSE IF errName = "NotAllowedError" THEN "Camera permission denied"
    ELSE "Failed to access webcam"

\* useEffect [videoSource], lines 247-268: the cleanup of the previous run of
\* the effect (its closure saw effectStreams), then the body for the new source
\* (its closure sees the state of the render that the change caused).
WebcamEffect(src) ==
    LET cleanupStopped == StoppedTracks(effectStreams, Block)
        bodyStopped == IF src # "webcam"
                       THEN StoppedTracks(StreamsOf(stationWebcams), Block) ELSE {}
        sel == [s \in Block |-> stationWebcams[s].selectedDeviceId]
    IN  /\ liveStreams' = liveStreams \ (cleanupStopped \cup bodyStopped)
        /\ stationWebcams' = [s \in Block |-> StoppedWebcam(stationWebcams[s])]
        /\ effectStreams' = StreamsOf(stationWebcams)
        /\ IF src = "webcam"
              THEN /\ activations' = activations + 1
                   /\ webcamTasks' = webcamTasks \cup
                         {Task("probe", activations + 1, "none", NoDevice, sel)}
              ELSE UNCHANGED <<activations, webcamTasks>>
        /\ UNCHANGED <<availableWebcams, switches>>

\* initWebcams after the permission probe: on success the probe stream is
\* stopped at once, n devices are enumerated and every station without a
\* selection gets its default device; on failure the catch only logs.  Either
\* way the .then() of the effect arms the 100 ms timer.
InitWebcamsDone(t, ok, n) ==
    /\ t \in webcamTasks /\ t.kind = "probe"
    /\ IF ok
          THEN /\ availableWebcams' = n
               /\ stationWebcams' =
                    IF n > 0
                    THEN [s \in Block |->
                            [stationWebcams[s] EXCEPT !.selectedDeviceId =
                                IF @ # NoDevice THEN @
                                ELSE DefaultDevice(StationIndex(s), n)]]
                    ELSE stationWebcams
          ELSE UNCHANGED <<availableWebcams, stationWebcams>>
    /\ webcamTasks' = (webcamTasks \ {t}) \cup
                      {Task("delay", t.id, "none", NoDevice, t.sel)}
    /\ UNCHANGED <<otherThanWebcam, videoSource, liveStreams, effectStreams, activations, switches>>

\* The setTimeout(100) callback of the effect: for every station,
\* startStationWebcam with the selectedDeviceId its closure captured.
StartAllWebcams(t) ==
    /\ t \in webcamTasks /\ t.kind = "delay"
    /\ stationWebcams' = [s \in Block |-> StartingWebcam(stationWebcams[s])]
    /\ webcamTasks' = (webcamTasks \ {t}) \cup
                      {Task("open", t.id, s, t.sel[s], NoSel) : s \in Block}
    /\ UNCHANGED <<otherThanWebcam, videoSource, availableWebcams, liveStreams, effectStreams,
                   activations, switches>>

\* getUserMedia with { deviceId: { exact: deviceId } } opens that device; with
\* { video: true } (no deviceId) the browser opens its default camera, taken
\* here to be the first enumerated device.
DefaultCamera == 1

OpenedDevice(deviceId) == IF deviceId # NoDevice THEN deviceId ELSE DefaultCamera

\* A failure that also gives up the opens of the same activation that are
\* still pending; the isolation property of C20 must tell it from the
\* handler of the code.
StartStationWebcamDone_abortingAll(t, ok, errName) ==
    /\ t \in webcamTasks /\ t.kind = "open"
    /\ IF ok
          THEN /\ webcamTasks' = webcamTasks \ {t}
               /\ stationWebcams' = [stationWebcams EXCEPT ![t.station] =
                                        OpenedWebcam(@, Stream(t, OpenedDevice(t.device)))]
               /\ liveStreams' = liveStreams \cup {Stream(t, OpenedDevice(t.device))}
          ELSE /\ webcamTasks' = {u \in webcamTasks : u.kind # "open" \/ u.id # t.id}
               /\ stationWebcams' = [stationWebcams EXCEPT ![t.station] =
                                        FailedWebcam(@, ErrorMessage(errName))]
               /\ UNCHANGED liveStreams
    /\ UNCHANGED <<otherThanWebcam, videoSource, availableWebcams, effectStreams, activations, switches>>

\* startStationWebcam resumed after getUserMedia.
StartStationWebcamDone(t, ok, errName) ==
    /\ t \in webcamTasks /\ t.kind = "open"
    /\ webcamTasks' = webcamTasks \ {t}
    /\ IF ok
          THEN /\ stationWebcams' = [stationWebcams EXCEPT ![t.station] =
                                        OpenedWebcam(@, Stream(t, OpenedDevice(t.device)))]
               /\ liveStreams' = liveStreams \cup {Stream(t, OpenedDevice(t.device))}
          ELSE /\ stationWebcams' = [stationWebcams EXCEPT ![t.station] =
                                        FailedWebcam(@, ErrorMessage(errName))]
               /\ UNCHANGED liveStreams
    /\ UNCHANGED <<otherThanWebcam, videoSource, availableWebcams, effectStreams, activations, switches>>

\* handleStationWebcamChange: the per-station device <select>, rendered only
\* while videoSource = 'webcam'.
HandleStationWebcamChange(station, deviceId) ==
    /\ videoSource = "webcam"
    /\ switches < MaxSwitches
    /\ deviceId \in 1..availableWebcams
    /\ deviceId # stationWebcams[station].selectedDeviceId
    /\ switches' = switches + 1
    /\ liveStreams' = liveStreams \ StoppedTracks(StreamsOf(stationWebcams), {station})
    /\ stationWebcams' = [stationWebcams EXCEPT ![station] =
                             StoppedWebcam([@ EXCEPT !.selectedDeviceId = deviceId])]
    /\ webcamTasks' = webcamTasks \cup
                      {Task("settle", -(switches + 1), station, deviceId, NoSel)}
    /\ UNCHANGED <<otherThanWebcam, videoSource, availableWebcams, effectStreams, activations>>

\* The setTimeout(300) callback of handleStationWebcamChange.
SettleElapsed(t) ==
    /\ t \in webcamTasks /\ t.kind = "settle"
    /\ stationWebcams' = [stationWebcams EXCEPT ![t.station] = StartingWebcam(@)]
    /\ webcamTasks' = (webcamTasks \ {t}) \cup
                      {Task("open", t.id, t.station, t.device, NoSel)}
    /\ UNCHANGED <<otherThanWebcam, videoSource, availableWebcams, liveStreams, effectStreams,
                   activations, switches>>

(* ------------------------------------------------------------------ *)
(* Remote (Pi) feed polling, lines 380-457                             *)
(* ------------------------------------------------------------------ *)
\* An image held by the component is null or a data URL built from a base64
\* payload; payloads are numbered, 0 standing for an absent (falsy) field.
NoImage == [url |-> "null", payload |-> 0]

DataUrl(payload) == [url |-> "data:image/jpeg;base64", payload |-> payload]

\* Times are in tenths of a second; NoTimestamp stands for null / undefined.
NoTimestamp == -1

FreshnessWindow == 30

FetchFailed == [ok |-> FALSE, annotatedImage |-> 0, timestamp |-> NoTimestamp]

FeedResponse(annotatedImage, timestamp) ==
    [ok |-> TRUE, annotatedImage |-> annotatedImage, timestamp |-> timestamp]

\* One element of feedPromises, lines 388-400: what a station's fetch yields.
FeedResult(resp) ==
    IF resp.ok /\ resp.annotatedImage # 0
    THEN [image |-> DataUrl(resp.annotatedImage), timestamp |-> resp.timestamp]
    ELSE [image |-> NoImage, timestamp |-> NoTimestamp]

\* A freshness test that includes the 3-second boundary; the connectivity
\* property of C7 must tell it from the test of the code.
IsConnected_inclusive(timestamp, currentTime) ==
    /\ timestamp # NoTimestamp
    /\ timestamp # 0
    /\ (currentTime - timestamp) <= FreshnessWindow

\* Line 423: timestamp && (currentTime - timestamp) < 3
IsConnected(timestamp, currentTime) ==
    /\ timestamp # NoTimestamp
    /\ timestamp # 0
    /\ (currentTime - timestamp) < FreshnessWindow

\* Lines 410-428: every station starts disconnected and is set connected only
\* by its own result of this poll.
NewConnectionStatus(result, currentTime) ==
    IF IsConnected(result.timestamp, currentTime)
    THEN [connected |-> TRUE, lastUpdate |-> result.timestamp]
    ELSE [connected |-> FALSE, lastUpdate |-> NoTimestamp]

\* Lines 435-440
PiStatusOf(status) ==
    LET activeFeedCount == Cardinality({s \in Block : status[s].connected})
    IN  IF activeFeedCount > 0
        THEN <<"System Active 1/4 cameras", "System Active 2/4 cameras",
               "System Active 3/4 cameras", "System Active 4/4 cameras">>[activeFeedCount]
        ELSE "Waiting for RPI feeds..."

NoPoll == [done |-> FALSE, responses |-> [s \in Block |-> FetchFailed], currentTime |-> 0]

\* The poll effect, lines 380-457: cleanup of the previous interval, then a
\* new interval when the new source is 'pi'.
PollEffect(src) ==
    /\ pollTimer' = (src = "pi")
    /\ UNCHANGED <<pollsInFlight, legacyInFlight, stationPiFeeds,
                   stationConnectionStatus, piStatus, lastPoll>>

\* The interval callback up to its first await: the four fetches are sent.
PollTick ==
    /\ pollTimer
    /\ pollsInFlight + legacyInFlight < MaxPollsInFlight
    /\ pollsInFlight' = pollsInFlight + 1
    /\ UNCHANGED <<videoSource, otherThanPoll, pollTimer, legacyInFlight, stationPiFeeds,
                   stationConnectionStatus, piImage, piRawImage, piStatus, lastPoll>>

\* The callback resumed after Promise.all: lines 402-440, then the legacy
\* fetch is sent.  Nothing here looks at videoSource.
PollFeedsDone(responses, currentTime) ==
    /\ pollsInFlight > 0
    /\ LET results == [s \in Block |-> FeedResult(responses[s])]
           newStatus == [s \in Block |-> NewConnectionStatus(results[s], currentTime)]
       IN  /\ stationPiFeeds' = [s \in Block |-> results[s].image]
           /\ stationConnectionStatus' = newStatus
           /\ piStatus' = PiStatusOf(newStatus)
    /\ pollsInFlight' = pollsInFlight - 1
    /\ legacyInFlight' = legacyInFlight + 1
    /\ lastPoll' = [done |-> TRUE, responses |-> responses, currentTime |-> currentTime]
    /\ UNCHANGED <<videoSource, otherThanPoll, pollTimer, piImage, piRawImage>>

LegacyFailed == [ok |-> FALSE, annotatedImage |-> 0, cleanImage |-> 0]

LegacyResponse(annotatedImage, cleanImage) ==
    [ok |-> TRUE, annotatedImage |-> annotatedImage, cleanImage |-> cleanImage]

\* A callback whose catch also clears the interval; the loop property of
\* C21 must tell it from the callback of the code.
PollLegacyDone_stopping(resp) ==
    /\ legacyInFlight > 0
    /\ legacyInFlight' = legacyInFlight - 1
    /\ IF ~resp.ok
          THEN /\ piStatus' = "Backend Offline"
               /\ pollTimer' = FALSE
               /\ UNCHANGED <<piImage, piRawImage>>
          ELSE /\ piImage' = IF resp.annotatedImage # 0
                                THEN DataUrl(resp.annotatedImage) ELSE piImage
               /\ piRawImage' = IF resp.annotatedImage # 0 /\ resp.cleanImage # 0
                                   THEN DataUrl(resp.cleanImage) ELSE piRawImage
               /\ UNCHANGED <<piStatus, pollTimer>>
    /\ UNCHANGED <<videoSource, otherThanPoll, pollsInFlight, stationPiFeeds,
                   stationConnectionStatus, lastPoll>>

\* The callback resumed after the latest-detection fetch, lines 443-454.
PollLegacyDone(resp) ==
    /\ legacyInFlight > 0
    /\ legacyInFlight' = legacyInFlight - 1
    /\ IF ~resp.ok
          THEN /\ piStatus' = "Backend Offline"
               /\ UNCHANGED <<piImage, piRawImage>>
          ELSE /\ piImage' = IF resp.annotatedImage # 0
                                THEN DataUrl(resp.annotatedImage) ELSE piImage
               /\ piRawImage' = IF resp.annotatedImage # 0 /\ resp.cleanImage # 0
                                   THEN DataUrl(resp.cleanImage) ELSE piRawImage
               /\ UNCHANGED piStatus
    /\ UNCHANGED <<videoSource, otherThanPoll, pollTimer, pollsInFlight, stationPiFeeds,
                   stationConnectionStatus, lastPoll>>

(* ------------------------------------------------------------------ *)
(* Cost aggregation, src/src/App.tsx                                   *)
(* ------------------------------------------------------------------ *)
\* An absent (undefined) numeric field of a response or of a result.
Undefined == -1

\* x ?? d
Nullish(x, d) == IF x = Undefined THEN d ELSE x

\* serviceRecord.brake_wear_rate is 45.5 and is never written; it is kept in
\* tenths so that the arithmetic stays in the integers.
BrakeWearRateTenths == 455

InitFeedEntry == [scratches |-> 0, dents |-> 0, cracks |-> 0, brakeStatus |-> "undefined"]

\* A recomputation that adds the new charges to the previous total; the cost
\* property of C5 must tell it from the recomputation of the code.
updateTotalCost_accumulating(updatedAnalysis) ==
    total_cost +
    Nullish(updatedAnalysis["front"].scratches, 0) * 300 +
    Nullish(updatedAnalysis["front"].dents, 0) * 500 +
    Nullish(updatedAnalysis["left"].scratches, 0) * 300 +
    Nullish(updatedAnalysis["left"].dents, 0) * 500 +
    Nullish(updatedAnalysis["right"].scratches, 0) * 300 +
    Nullish(updatedAnalysis["right"].dents, 0) * 500 +
    Nullish(updatedAnalysis["brake"].scratches, 0) * 300 +
    Nullish(updatedAnalysis["brake"].dents, 0) * 500 +
    (BrakeWearRateTenths * 20) \div 10 + 500

\* updateTotalCost, lines 43-57: the total it passes to setServiceRecord.
updateTotalCost(updatedAnalysis) ==
    LET front == updatedAnalysis["front"]
        left  == updatedAnalysis["left"]
        right == updatedAnalysis["right"]
        brake == updatedAnalysis["brake"]
    IN  Nullish(front.scratches, 0) * 300 + Nullish(front.dents, 0) * 500 +
        Nullish(left.scratches, 0) * 300 + Nullish(left.dents, 0) * 500 +
        Nullish(right.scratches, 0) * 300 + Nullish(right.dents, 0) * 500 +
        Nullish(brake.scratches, 0) * 300 + Nullish(brake.dents, 0) * 500 +
        (BrakeWearRateTenths * 20) \div 10 + 500

\* An updater that starts from the initial analysis instead of prev, as a
\* handler closing over the first render's feedAnalysis would; the frame
\* and order properties of C17 must tell it from the updater of the code.
updated_fromInitial(prev, block, result) ==
    [b \in DOMAIN prev |->
        IF b = block
        THEN [scratches |-> Nullish(result.scratches, 0),
              dents |-> Nullish(result.dents, 0),
              cracks |-> Nullish(result.cracks, 0),
              brakeStatus |-> result.brakeStatus]
        ELSE InitFeedEntry]

\* The updater handed to setFeedAnalysis, lines 66-78: the analysis of the
\* other stations is taken from prev, the state at the time it is applied.
updated(prev, block, result) ==
    [prev EXCEPT ![block] =
        [scratches |-> Nullish(result.scratches, 0),
         dents |-> Nullish(result.dents, 0),
         cracks |-> Nullish(result.cracks, 0),
         brakeStatus |-> result.brakeStatus]]

\* handleAnalysisComplete, lines 65-80
handleAnalysisComplete(block, result) ==
    /\ feedAnalysis' = updated(feedAnalysis, block, result)
    /\ total_cost' = updateTotalCost(updated(feedAnalysis, block, result))

(* ------------------------------------------------------------------ *)
(* Capture slots and the capture pipeline                              *)
(* ------------------------------------------------------------------ *)
\* analysisResult: {}
EmptyResult == [scratches |-> Undefined, dents |-> Undefined, cracks |-> Undefined,
                brakeStatus |-> "undefined"]

EmptyBlock == [beforeImage |-> NoImage, afterImage |-> NoImage, loading |-> FALSE,
               analysisResult |-> EmptyResult]

\* canvas.toDataURL of the station's video element, which plays the stream
\* held in the state of the current render.
CanvasUrl(stream) == [url |-> "data:image/jpeg;canvas", payload |-> stream.device]

\* FileReader.readAsDataURL of the file the operator picked.
FileUrl(file) == [url |-> "data:image/jpeg;file", payload |-> file]

\* What the closure of a captureFromFeed sees of the component state.
RenderEnv == [videoSource |-> videoSource,
              stationPiFeeds |-> stationPiFeeds,
              piRawImage |-> piRawImage,
              piImage |-> piImage,
              streams |-> StreamsOf(stationWebcams)]

\* a || b || c on images
FirstImage(a, b, c) == IF a # NoImage THEN a ELSE IF b # NoImage THEN b ELSE c

\* A <video> that stays mounted whenever the station has a stream, whatever
\* the source; the property of C15 must tell it from the rendering of the code.
VideoElementMounted_anySource(block) ==
    /\ blocks[block].afterImage = NoImage
    /\ stationWebcams[block].stream # NoStream

\* The <video> of a station is rendered (videoRef.current is set) only while
\* the station shows no result and has a stream in webcam mode, lines 1003-1024.
VideoElementMounted(block) ==
    /\ blocks[block].afterImage = NoImage
    /\ videoSource = "webcam"
    /\ stationWebcams[block].stream # NoStream

\* captureFromFeed, lines 475-542: the still image, or NoImage when the
\* function alerts and returns.  The 'rpi' branch needs videoSource = 'rpi',
\* which no control sets.
SourceImage(block, env) ==
    IF env.videoSource = "pi"
    THEN FirstImage(env.stationPiFeeds[block], env.piRawImage, env.piImage)
    ELSE IF VideoElementMounted(block) /\ env.streams[block] # NoStream
         THEN CanvasUrl(stationWebcams[block].stream)
         ELSE NoImage

\* The requests of one station that are in flight are told apart by seq; a
\* request remembers the slot fields of its station from before the capture.
FreeSeqs(block) == (1..MaxInFlight) \ {r.seq : r \in {q \in inflight : q.block = block}}

Request(block, seq, via, image) ==
    [block |-> block, seq |-> seq, via |-> via, beforeImage |-> image,
     pre |-> [beforeImage |-> blocks[block].beforeImage,
              afterImage |-> blocks[block].afterImage,
              analysisResult |-> blocks[block].analysisResult]]

\* Lines 544-549 (and 1091-1094): loading, beforeImage, and the request is sent.
SendAnalysis(block, via, image) ==
    /\ FreeSeqs(block) # {}
    /\ blocks' = [blocks EXCEPT ![block] =
                     [@ EXCEPT !.loading = TRUE, !.beforeImage = image]]
    /\ inflight' = inflight \cup
                   {Request(block, CHOOSE i \in FreeSeqs(block) : TRUE, via, image)}
    /\ sent' = sent + 1

\* captureFromFeed as a whole, up to the await of the analysis request.
captureFromFeed(block, env) ==
    IF SourceImage(block, env) = NoImage
    THEN UNCHANGED <<blocks, inflight, sent>>
    ELSE SendAnalysis(block, "capture", SourceImage(block, env))

\* What the analysis endpoint answers: ok is FALSE for a network error or a
\* non-2xx status (analyzeImageFile throws); a field of the JSON body may be
\* absent (annotatedImage 0, a count Undefined).
AnalysisFailed == [ok |-> FALSE, annotatedImage |-> 0, scratchCount |-> Undefined,
                   dentCount |-> Undefined, crackCount |-> Undefined]

AnalysisResponse(annotatedImage, scratchCount, dentCount, crackCount) ==
    [ok |-> TRUE, annotatedImage |-> annotatedImage, scratchCount |-> scratchCount,
     dentCount |-> dentCount, crackCount |-> crackCount]

\* (scratchCount + dentCount + crackCount) > 0 ? "Bad" : "Good"; a sum with an
\* undefined term is NaN, and NaN > 0 is false.
BrakeStatusOf(resData) ==
    IF Undefined \in {resData.scratchCount, resData.dentCount, resData.crackCount}
    THEN "Good"
    ELSE IF resData.scratchCount + resData.dentCount + resData.crackCount > 0
         THEN "Bad" ELSE "Good"

ResultOf(resData) ==
    [scratches |-> resData.scratchCount, dents |-> resData.dentCount,
     cracks |-> resData.crackCount, brakeStatus |-> BrakeStatusOf(resData)]

\* Whether the handler of the response takes its catch branch: the request
\* threw, or (upload path only, lines 1096-1099) annotatedImage is missing.
ResponseRejected(via, resData) ==
    \/ ~resData.ok
    \/ via = "upload" /\ resData.annotatedImage = 0

\* Updaters that leave the slots alone when the slot of the request is no
\* longer loading, as a handler that treated a reset as a cancellation would;
\* the property of C24 must tell them from the updaters of the code.
SlotsUpdater_ifStillLoading(p, r, resData) ==
    IF ~p[r.block].loading
    THEN p
    ELSE IF ResponseRejected(r.via, resData)
    THEN [p EXCEPT ![r.block] = [@ EXCEPT !.loading = FALSE]]
    ELSE [p EXCEPT ![r.block] =
             [@ EXCEPT !.loading = FALSE,
                       !.afterImage = DataUrl(resData.annotatedImage),
                       !.analysisResult = ResultOf(resData)]]

\* The updaters handed to setBlocks when the request of r settles: the one
\* of the catch branch (line 580) or the one of lines 555-565; p is the
\* slots at the time the updater is applied.
SlotsUpdater(p, r, resData) ==
    IF ResponseRejected(r.via, resData)
    THEN [p EXCEPT ![r.block] = [@ EXCEPT !.loading = FALSE]]
    ELSE [p EXCEPT ![r.block] =
             [@ EXCEPT !.loading = FALSE,
                       !.afterImage = DataUrl(resData.annotatedImage),
                       !.analysisResult = ResultOf(resData)]]

\* The continuation of captureFromFeed (lines 549-581) and of the upload
\* handler (lines 1094-1131) after the analysis request settles.
AnalysisDone(r, resData) ==
    /\ r \in inflight
    /\ inflight' = inflight \ {r}
    /\ lastAnalysis' = resData
    /\ UNCHANGED <<sent, lastCapture>>
    /\ blocks' = SlotsUpdater(blocks, r, resData)
    /\ IF ResponseRejected(r.via, resData)
          THEN UNCHANGED costVars
          ELSE handleAnalysisComplete(r.block, ResultOf(resData))
    /\ UNCHANGED <<videoSource, webcamVars, pollVars, autoVars, panelVars>>

\* isLive of a station card, line 892
IsLive(block) ==
    \/ videoSource = "pi"
    \/ videoSource = "webcam" /\ stationWebcams[block].stream # NoStream

\* CAPTURE FRAME button: rendered while the slot has no afterImage, enabled
\* while the station is live; its handler is captureFromFeed of this render.
ManualCapture(block) ==
    /\ blocks[block].afterImage = NoImage
    /\ IsLive(block)
    /\ captureFromFeed(block, RenderEnv)
    /\ UNCHANGED <<lastAnalysis, lastCapture, videoSource, webcamVars, pollVars, autoVars, costVars,
                   panelVars>>

\* captureFromFeed of the current render called directly, also where the
\* button would not let the operator call it.
CaptureCall(block) ==
    /\ captureFromFeed(block, RenderEnv)
    /\ lastCapture' = IF SourceImage(block, RenderEnv) = NoImage THEN "alert" ELSE "sent"
    /\ UNCHANGED <<lastAnalysis, videoSource, webcamVars, pollVars, autoVars, costVars,
                   panelVars>>

\* UPLOAD FILE input: rendered while the slot has no afterImage.
UploadFile(block, file) ==
    /\ blocks[block].afterImage = NoImage
    /\ SendAnalysis(block, "upload", FileUrl(file))
    /\ UNCHANGED <<lastAnalysis, lastCapture, videoSource, webcamVars, pollVars, autoVars, costVars,
                   panelVars>>

\* A reset that empties all four slots; the frame property of C13 must tell
\* it from the reset of the code.
resetBlock_everySlot(block) ==
    /\ \/ blocks[block].beforeImage # NoImage
       \/ blocks[block].afterImage # NoImage
       \/ blocks[block].loading
    /\ blocks' = [b \in Block |-> EmptyBlock]
    /\ UNCHANGED <<videoSource, webcamVars, pollVars, inflight, sent, lastAnalysis, lastCapture,
                   autoVars, costVars,
                   panelVars>>

\* resetBlock, lines 584-589; its button is rendered while the slot shows
\* an image or is loading.
resetBlock(block) ==
    /\ \/ blocks[block].beforeImage # NoImage
       \/ blocks[block].afterImage # NoImage
       \/ blocks[block].loading
    /\ blocks' = [blocks EXCEPT ![block] = EmptyBlock]
    /\ UNCHANGED <<videoSource, webcamVars, pollVars, inflight, sent, lastAnalysis, lastCapture,
                   autoVars, costVars,
                   panelVars>>

(* ------------------------------------------------------------------ *)
(* Auto-capture sequencer, lines 592-629                               *)
(* ------------------------------------------------------------------ *)
stationOrder == <<"front", "left", "right", "brake">>

TimerIds == 1..MaxTimers

FreeTimerIds == TimerIds \ {t.id : t \in intervals}

\* A start that only looks at the source and lacks the early return of line
\* 597; the rejection property of C8 must tell it from the start of the code.
StartAllowed_sourceOnly(source, capturing) == source # "none"

\* Lines 593-597: the two early returns of startAutoCapture.
StartAllowed(source, capturing) == source # "none" /\ ~capturing

\* A clearInterval that leaves every timer set; the cancellation property of
\* C10 must tell it from the clearInterval of the code.
ClearInterval_ignored(timers, id) == timers

\* clearInterval(id): clearing null or an id that is not set does nothing.
ClearInterval(timers, id) == {t \in timers : t.id # id}

\* startAutoCapture: the interval callback keeps the captureFromFeed of the
\* render in which the run was started, and its own currentIndex.
startAutoCapture ==
    /\ IF StartAllowed(videoSource, autoCapturing)
          THEN /\ FreeTimerIds # {}
               /\ LET id == CHOOSE i \in FreeTimerIds : TRUE
                  IN  /\ intervals' = intervals \cup
                            {[id |-> id, currentIndex |-> 0, env |-> RenderEnv]}
                      /\ autoCaptureTimerRef' = id
               /\ autoCapturing' = TRUE
               /\ currentAutoStation' = stationOrder[1]
               /\ runs' = runs + 1
               /\ autoLog' = <<>>
               /\ lastStart' = "started"
               /\ runOutcome' = "running"
          ELSE /\ lastStart' = "rejected"
               /\ UNCHANGED <<autoCapturing, currentAutoStation, autoCaptureTimerRef,
                              intervals, runs, runOutcome, autoLog>>
    /\ UNCHANGED <<videoSource, webcamVars, pollVars, captureVars, costVars,
                   panelVars>>

\* A sequencer that advances by two stations per tick; the order property of
\* C4 must tell it from the sequencer of the code.
NextIndex_skipping(currentIndex) == currentIndex + 2

\* currentIndex++, line 611
NextIndex(currentIndex) == currentIndex + 1

\* A callback that lets a tick pass while a request is still unanswered;
\* the property of C25 must tell it from the callback of the code.
AutoTick_awaiting(t) ==
    /\ inflight = {}
    /\ t \in intervals
    /\ IF t.currentIndex < Len(stationOrder)
          THEN LET station == stationOrder[t.currentIndex + 1]
               IN  /\ currentAutoStation' = station
                   /\ captureFromFeed(station, t.env)
                   /\ intervals' = (intervals \ {t}) \cup
                                   {[t EXCEPT !.currentIndex = NextIndex(@)]}
                   /\ autoLog' = Append(autoLog, station)
                   /\ UNCHANGED <<autoCapturing, autoCaptureTimerRef, runs, lastStart,
                                  runOutcome, lastAnalysis, lastCapture>>
          ELSE /\ intervals' = ClearInterval(intervals, autoCaptureTimerRef)
               /\ autoCaptureTimerRef' = 0
               /\ autoCapturing' = FALSE
               /\ currentAutoStation' = "null"
               /\ runOutcome' = "completed"
               /\ UNCHANGED <<captureVars, runs, lastStart, autoLog>>
    /\ UNCHANGED <<videoSource, webcamVars, pollVars, costVars,
                   panelVars>>

\* The setInterval(2000) callback, lines 606-618.
AutoTick(t) ==
    /\ t \in intervals
    /\ IF t.currentIndex < Len(stationOrder)
          THEN LET station == stationOrder[t.currentIndex + 1]
               IN  /\ currentAutoStation' = station
                   /\ captureFromFeed(station, t.env)
                   /\ intervals' = (intervals \ {t}) \cup
                                   {[t EXCEPT !.currentIndex = NextIndex(@)]}
                   /\ autoLog' = Append(autoLog, station)
                   /\ UNCHANGED <<autoCapturing, autoCaptureTimerRef, runs, lastStart,
                                  runOutcome, lastAnalysis, lastCapture>>
          ELSE /\ intervals' = ClearInterval(intervals, autoCaptureTimerRef)
               /\ autoCaptureTimerRef' = 0
               /\ autoCapturing' = FALSE
               /\ currentAutoStation' = "null"
               /\ runOutcome' = "completed"
               /\ UNCHANGED <<captureVars, runs, lastStart, autoLog>>
    /\ UNCHANGED <<videoSource, webcamVars, pollVars, costVars,
                   panelVars>>

\* A cancellation that clears the timer and its handle but leaves the
\* running flag and the current station; the invariant of C12 must tell it
\* from the cancellation of the code.
AutoCancelEffect_timerOnly(src) ==
    IF src = "none" /\ autoCaptureTimerRef # 0
    THEN /\ intervals' = ClearInterval(intervals, autoCaptureTimerRef)
         /\ autoCaptureTimerRef' = 0
         /\ runOutcome' = "cancelled"
         /\ UNCHANGED <<autoCapturing, currentAutoStation, runs, lastStart, autoLog>>
    ELSE UNCHANGED autoVars

\* useEffect [videoSource], lines 622-629.
AutoCancelEffect(src) ==
    IF src = "none" /\ autoCaptureTimerRef # 0
    THEN /\ intervals' = ClearInterval(intervals, autoCaptureTimerRef)
         /\ autoCaptureTimerRef' = 0
         /\ autoCapturing' = FALSE
         /\ currentAutoStation' = "null"
         /\ runOutcome' = "cancelled"
         /\ UNCHANGED <<runs, lastStart, autoLog>>
    ELSE UNCHANGED autoVars

(* ------------------------------------------------------------------ *)
(* Source selector and CLEAR button                                    *)
(* ------------------------------------------------------------------ *)
\* onChange of the source <select> (line 682) followed by the render it
\* causes and the three effects that depend on videoSource.
SetVideoSource(src) ==
    /\ src # videoSource
    /\ src = "webcam" => activations < MaxActivations
    /\ videoSource' = src
    /\ WebcamEffect(src)
    /\ PollEffect(src)
    /\ AutoCancelEffect(src)
    /\ UNCHANGED <<piImage, piRawImage, captureVars, costVars,
                   panelVars>>

\* CLEAR button of the monitor header, lines 711-724, rendered while a
\* source is selected; then the effects of the change to 'none'.
ClearFeed ==
    /\ videoSource # "none"
    /\ intervals' = ClearInterval(intervals, autoCaptureTimerRef)
    /\ autoCaptureTimerRef' = 0
    /\ autoCapturing' = FALSE
    /\ currentAutoStation' = "null"
    /\ videoSource' = "none"
    /\ piImage' = NoImage
    /\ piRawImage' = NoImage
    /\ WebcamEffect("none")
    /\ PollEffect("none")
    /\ runOutcome' = IF autoCaptureTimerRef # 0 THEN "cancelled" ELSE runOutcome
    /\ UNCHANGED <<runs, lastStart, autoLog, captureVars, costVars,
                   panelVars>>

(* ------------------------------------------------------------------ *)
(* Tabs of the application shell, src/src/App.tsx                      *)
(* ------------------------------------------------------------------ *)
\* LiveFeed is rendered on the dashboard tab only (line 310), the
\* diagnostics panel on the ecu tab only (line 442).
Tabs == {"dashboard", "ecu", "info"}

\* What React runs when LiveFeed is unmounted: the cleanup of the
\* [videoSource] effect (lines 265-267), whose closure saw effectStreams, and
\* the cleanup of the poll effect (line 456).  The auto-capture effect (lines
\* 622-629) returns no cleanup.  State updates of the unmounted component
\* are dropped.
LiveFeedUnmount ==
    /\ liveStreams' = liveStreams \ StoppedTracks(effectStreams, Block)
    /\ pollTimer' = FALSE
    /\ UNCHANGED <<videoSource, stationWebcams, availableWebcams, webcamTasks, effectStreams,
                   activations, switches, pollsInFlight, legacyInFlight, stationPiFeeds,
                   stationConnectionStatus, piImage, piRawImage, piStatus, lastPoll,
                   captureVars, autoVars>>

(* ------------------------------------------------------------------ *)
(* useSensorData, src/unnamed/part_000                                  *)
(* ------------------------------------------------------------------ *)
\* sensorData is null or the row as it was at some version.
NoData == 0

FreeFetchIds == (1..MaxFetches) \ {f.seq : f \in fetches}

\* fetchData up to its await, lines 43-49: a select query is sent; it
\* remembers the effect run whose isSubscribed it tests, and carries no row
\* until the database has served it.
Fetch(run, seq) == [run |-> run, seq |-> seq, data |-> NoData]

\* The effect body, lines 34-100: a new isSubscribed, the initial fetch, the
\* 2-second interval and the channel.  The hook's state is new with its
\* component.
UseSensorDataEffect ==
    /\ hookRuns' = hookRuns + 1
    /\ hookRun' = hookRuns + 1
    /\ sensorData' = NoData
    /\ fetches' = IF FreeFetchIds # {}
                  THEN fetches \cup {Fetch(hookRuns + 1, CHOOSE i \in FreeFetchIds : TRUE)}
                  ELSE fetches
    /\ UNCHANGED <<storedRecord, pushes>>

\* The cleanup, lines 102-107: isSubscribed = false, the interval is
\* cleared and the channel removed; notifications still on their way to the
\* removed channel reach no callback.
UseSensorDataCleanup ==
    /\ hookRun' = 0
    /\ pushes' = {}
    /\ UNCHANGED <<storedRecord, hookRuns, sensorData, fetches>>

\* The setInterval(2000) callback, lines 72-74.
SensorPollTick ==
    /\ hookRun # 0
    /\ FreeFetchIds # {}
    /\ fetches' = fetches \cup {Fetch(hookRun, CHOOSE i \in FreeFetchIds : TRUE)}
    /\ UNCHANGED <<liveFeedVars, costVars, activeTab, storedRecord, hookRun, hookRuns,
                   sensorData, pushes, saveVars>>

\* The database serves a query: the row as it is now.
SensorFetchServed(f) ==
    /\ f \in fetches /\ f.data = NoData
    /\ fetches' = (fetches \ {f}) \cup {[f EXCEPT !.data = storedRecord]}
    /\ UNCHANGED <<liveFeedVars, costVars, activeTab, storedRecord, hookRun, hookRuns,
                   sensorData, pushes, saveVars>>

\* A continuation that stores a row only while the hook holds none; the
\* convergence property of C23 must tell it from the one of the code.
SensorFetchDone_onceOnly(f, ok) ==
    /\ f \in fetches
    /\ ok => f.data # NoData
    /\ fetches' = fetches \ {f}
    /\ sensorData' = IF ok /\ f.run = hookRun /\ sensorData = NoData THEN f.data
                     ELSE sensorData
    /\ UNCHANGED <<liveFeedVars, costVars, activeTab, storedRecord, hookRun, hookRuns,
                   pushes, saveVars>>

\* fetchData resumed, lines 51-65: on success the row is stored if the
\* effect run of the query is still subscribed; a failure stores no row.
\* (error and loading of the hook are not read by the panel and are left out.)
SensorFetchDone(f, ok) ==
    /\ f \in fetches
    /\ ok => f.data # NoData
    /\ fetches' = fetches \ {f}
    /\ sensorData' = IF ok /\ f.run = hookRun THEN f.data ELSE sensorData
    /\ UNCHANGED <<liveFeedVars, costVars, activeTab, storedRecord, hookRun, hookRuns,
                   pushes, saveVars>>

\* The row changes (a sensor posts new values).  The change is notified on
\* the channel of the subscribed effect run, or the notification is lost.
RecordChange(notified) ==
    /\ storedRecord < MaxVersion
    /\ storedRecord' = storedRecord + 1
    /\ pushes' = IF notified /\ hookRun # 0
                 THEN pushes \cup {[run |-> hookRun, data |-> storedRecord + 1]}
                 ELSE pushes
    /\ UNCHANGED <<liveFeedVars, costVars, activeTab, hookRun, hookRuns, sensorData,
                   fetches, saveVars>>

\* The postgres_changes callback, lines 91-96.
PushDelivered(p) ==
    /\ p \in pushes
    /\ pushes' = pushes \ {p}
    /\ sensorData' = IF p.run = hookRun THEN p.data ELSE sensorData
    /\ UNCHANGED <<liveFeedVars, costVars, activeTab, storedRecord, hookRun, hookRuns,
                   fetches, saveVars>>

(* ------------------------------------------------------------------ *)
(* Auto-save of the diagnostics panel, src/unnamed/part_002            *)
(* ------------------------------------------------------------------ *)
\* displayData, lines 57-65: the values of the row the hook holds, or the
\* props of the panel while it holds none.  The props never change: App
\* passes fields of serviceRecord that nothing updates.
displayData(data) ==
    IF data # NoData THEN [from |-> "sensorData", version |-> data]
    ELSE [from |-> "props", version |-> 0]

NoSave == [by |-> "none", submitted |-> displayData(NoData), displayed |-> displayData(NoData)]

\* saveSensorData up to its await, lines 167-188, as defined by the render
\* whose hook value was data: the form carries that render's displayData.
saveSensorData(by, data) ==
    /\ saveError' = "null"
    /\ saveRequests' = saveRequests \cup
                       {[run |-> hookRun, seq |-> saves + 1, body |-> displayData(data)]}
    /\ saves' = saves + 1
    /\ lastSave' = [by |-> by, submitted |-> displayData(data),
                    displayed |-> displayData(sensorData)]

\* saveSensorData resumed, lines 190-199; the state of a panel that was
\* unmounted in between is gone.
SaveDone(q, outcome) ==
    /\ q \in saveRequests
    /\ saveRequests' = saveRequests \ {q}
    /\ IF q.run # hookRun
          THEN UNCHANGED <<lastSaveTime, saveError>>
          ELSE IF outcome = "ok"
               THEN lastSaveTime' = TRUE /\ UNCHANGED saveError
               ELSE /\ saveError' = IF outcome = "rejected" THEN "Save failed"
                                    ELSE "Connection error"
                    /\ UNCHANGED lastSaveTime
    /\ UNCHANGED <<liveFeedVars, costVars, activeTab, sensorVars, isAutoSaving,
                   autoSaveTimerRef, saveIntervals, saves, lastSave>>

FreeSaveTimerIds == (1..MaxTimers) \ {t.id : t \in saveIntervals}

\* startAutoSave, lines 203-209; its button is rendered while the panel is
\* not auto-saving.  The interval callback calls the saveSensorData of the
\* render in which the button was clicked.
startAutoSave ==
    /\ activeTab = "ecu"
    /\ ~isAutoSaving
    /\ FreeSaveTimerIds # {}
    /\ isAutoSaving' = TRUE
    /\ saveSensorData("start", sensorData)
    /\ LET id == CHOOSE i \in FreeSaveTimerIds : TRUE
       IN  /\ saveIntervals' = saveIntervals \cup {[id |-> id, data |-> sensorData]}
           /\ autoSaveTimerRef' = id
    /\ UNCHANGED <<liveFeedVars, costVars, activeTab, sensorVars, lastSaveTime>>

\* The value of the hook that the interval callback of t works with: the
\* one of the render in which the interval was set.
AutoSaveData(t) == t.data

\* The setInterval(120000) callback, lines 206-208.
AutoSaveTick(t) ==
    /\ t \in saveIntervals
    /\ saveSensorData("timer", AutoSaveData(t))
    /\ UNCHANGED <<liveFeedVars, costVars, activeTab, sensorVars, isAutoSaving,
                   autoSaveTimerRef, saveIntervals, lastSaveTime>>

\* stopAutoSave, lines 212-218; its button is rendered while auto-saving.
stopAutoSave ==
    /\ activeTab = "ecu"
    /\ isAutoSaving
    /\ isAutoSaving' = FALSE
    /\ saveIntervals' = {t \in saveIntervals : t.id # autoSaveTimerRef}
    /\ autoSaveTimerRef' = 0
    /\ UNCHANGED <<liveFeedVars, costVars, activeTab, sensorVars, saveRequests, saves,
                   lastSaveTime, saveError, lastSave>>

\* The panel is mounted: new state, and the effect of its hook runs.
PanelMount ==
    /\ UseSensorDataEffect
    /\ isAutoSaving' = FALSE
    /\ autoSaveTimerRef' = 0
    /\ lastSaveTime' = FALSE
    /\ saveError' = "null"
    /\ UNCHANGED <<saveIntervals, saveRequests, saves, lastSave>>

\* The panel is unmounted: the cleanup of lines 221-227 clears the interval
\* the ref holds, and the cleanup of the hook runs.
PanelUnmount ==
    /\ UseSensorDataCleanup
    /\ saveIntervals' = {t \in saveIntervals : t.id # autoSaveTimerRef}
    /\ UNCHANGED <<isAutoSaving, autoSaveTimerRef, saveRequests, saves, lastSaveTime,
                   saveError, lastSave>>

\* onClick of a tab button, line 211.  The model follows the LiveFeed that
\* is mounted at the start: the way back to the dashboard, which would
\* construct another LiveFeed, is not taken.
SetActiveTab(tab) ==
    /\ tab # activeTab
    /\ tab # "dashboard"
    /\ tab = "ecu" => hookRuns < MaxHookRuns
    /\ activeTab' = tab
    /\ IF activeTab = "dashboard"
          THEN LiveFeedUnmount
          ELSE UNCHANGED liveFeedVars
    /\ IF tab = "ecu" THEN PanelMount
       ELSE IF activeTab = "ecu" THEN PanelUnmount
       ELSE UNCHANGED <<sensorVars, saveVars>>
    /\ UNCHANGED costVars

(* ------------------------------------------------------------------ *)
(* Initial state: the component and the application just mounted       *)
(* ------------------------------------------------------------------ *)
Init ==
    /\ videoSource = "none"
    /\ stationWebcams = [s \in Block |-> InitStationWebcam]
    /\ availableWebcams = 0
    /\ liveStreams = {}
    /\ webcamTasks = {}
    /\ effectStreams = [s \in Block |-> NoStream]
    /\ activations = 0
    /\ switches = 0
    /\ pollTimer = FALSE
    /\ pollsInFlight = 0
    /\ legacyInFlight = 0
    /\ stationPiFeeds = [s \in Block |-> NoImage]
    /\ stationConnectionStatus =
           [s \in Block |-> [connected |-> FALSE, lastUpdate |-> NoTimestamp]]
    /\ piImage = NoImage
    /\ piRawImage = NoImage
    /\ piStatus = "Waiting for connection..."
    /\ lastPoll = NoPoll
    /\ blocks = [s \in Block |-> EmptyBlock]
    /\ inflight = {}
    /\ sent = 0
    /\ lastAnalysis = AnalysisFailed
    /\ lastCapture = "none"
    /\ autoCapturing = FALSE
    /\ currentAutoStation = "null"
    /\ autoCaptureTimerRef = 0
    /\ intervals = {}
    /\ runs = 0
    /\ lastStart = "none"
    /\ runOutcome = "none"
    /\ autoLog = <<>>
    /\ feedAnalysis = [s \in Block |-> InitFeedEntry]
    /\ total_cost = 0
    /\ activeTab = "dashboard"
    /\ storedRecord = 1
    /\ hookRun = 0
    /\ hookRuns = 0
    /\ sensorData = NoData
    /\ fetches = {}
    /\ pushes = {}
    /\ isAutoSaving = FALSE
    /\ autoSaveTimerRef = 0
    /\ saveIntervals = {}
    /\ saveRequests = {}
    /\ saves = 0
    /\ lastSaveTime = FALSE
    /\ saveError = "null"
    /\ lastSave = NoSave

(* ------------------------------------------------------------------ *)
(* Inputs of the environment                                           *)
(* ------------------------------------------------------------------ *)
\* The clock reading of a poll and the timestamps a station feed may carry:
\* 3.1 s, 3.0 s and 2.9 s before the reading.
PollNow == 100

CommonFeedResponses ==
    {FetchFailed, FeedResponse(1, PollNow - 29), FeedResponse(1, PollNow - 30)}

RareFeedResponses ==
    {FeedResponse(0, PollNow - 29), FeedResponse(1, NoTimestamp),
     FeedResponse(1, PollNow - 31)}

\* The four responses of one poll: any mix of the common ones, at most one
\* station answering with a rare one.
PollResponses ==
    {f \in [Block -> CommonFeedResponses \cup RareFeedResponses] :
        Cardinality({s \in Block : f[s] \in RareFeedResponses}) <= 1}

OpenErrorNames == {"NotReadableError", "NotAllowedError"}

LegacyResponses == {LegacyFailed, LegacyResponse(0, 0), LegacyResponse(1, 0)}

\* Bodies the analysis endpoint may answer with; counts up to MaxCount.
Counts == 0..MaxCount

RichResults ==
    {[scratches |-> s, dents |-> d, cracks |-> c, brakeStatus |-> b] :
        s \in Counts \cup {Undefined}, d \in {0, 1}, c \in {0, 1}, b \in {"Good"}}

(* ------------------------------------------------------------------ *)
(* Specifications                                                      *)
(* ------------------------------------------------------------------ *)
\* The webcam side of the component: source selection, the activation
\* chain, per-station device switches.
WebcamNext ==
    \/ \E src \in VideoSources : SetVideoSource(src)
    \/ ClearFeed
    \/ \E t \in webcamTasks, ok \in BOOLEAN, n \in 1..MaxDevices : InitWebcamsDone(t, ok, n)
    \/ \E t \in webcamTasks : StartAllWebcams(t)
    \/ \E t \in webcamTasks, ok \in BOOLEAN, e \in OpenErrorNames :
          StartStationWebcamDone(t, ok, e)
    \/ \E s \in Block, d \in 1..MaxDevices : HandleStationWebcamChange(s, d)
    \/ \E t \in webcamTasks : SettleElapsed(t)

SpecWebcam == Init /\ [][WebcamNext]_vars

\* The remote-feed side: source selection and the polling loop.
PollNext ==
    \/ \E src \in {"none", "pi"} : SetVideoSource(src)
    \/ ClearFeed
    \/ PollTick
    \/ \E responses \in PollResponses : PollFeedsDone(responses, PollNow)
    \/ \E resp \in LegacyResponses : PollLegacyDone(resp)

SpecPoll == Init /\ [][PollNext]_vars

\* The application shell: the analysis callback with any result.
AnalysisComplete(block, result) ==
    /\ handleAnalysisComplete(block, result)
    /\ UNCHANGED <<videoSource, webcamVars, pollVars, captureVars, autoVars, panelVars>>

CostNext == \E block \in Block, result \in RichResults : AnalysisComplete(block, result)

SpecCost == Init /\ [][CostNext]_vars

\* Remote-feed scenarios of the capture side: every camera agent delivers
\* its frame, every one but the brake station's, or none.
SlotPollResponses ==
    {[s \in Block |-> FeedResponse(1, PollNow - 29)],
     [s \in Block |-> IF s = "brake" THEN FetchFailed ELSE FeedResponse(1, PollNow - 29)],
     [s \in Block |-> FetchFailed]}

SlotAnalysisResponses ==
    {AnalysisFailed,
     AnalysisResponse(0, Undefined, Undefined, Undefined),
     AnalysisResponse(1, 1, 0, 0)}

\* The capture slots: source selection, polling, manual capture, upload,
\* reset and the answers of the analysis endpoint, for up to MaxSent requests.
Next ==
    \/ \E src \in VideoSources : SetVideoSource(src)
    \/ ClearFeed
    \/ PollTick
    \/ \E responses \in SlotPollResponses : PollFeedsDone(responses, PollNow)
    \/ PollLegacyDone(LegacyResponse(0, 0))
    \/ \E block \in Block : sent < MaxSent /\ ManualCapture(block)
    \/ \E block \in Block : sent < MaxSent /\ UploadFile(block, 1)
    \/ \E block \in Block : resetBlock(block)
    \/ \E r \in inflight, resData \in SlotAnalysisResponses : AnalysisDone(r, resData)

Spec == Init /\ [][Next]_vars

\* AUTO CAPTURE button, lines 694-708: rendered while a source is selected,
\* disabled while a run is running; its handler is startAutoCapture.
AutoCaptureButton ==
    /\ videoSource # "none"
    /\ ~autoCapturing
    /\ startAutoCapture

\* Remote-feed scenario of the sequencer: every camera agent delivers its
\* frame; before the first poll completes no station has one.
AutoPollResponses == {[s \in Block |-> FeedResponse(1, PollNow - 29)]}

\* The auto-capture sequencer as the operator drives it: source selection,
\* polling, up to MaxRuns runs and the answers to the requests the runs send.
AutoNext ==
    \/ \E src \in VideoSources : SetVideoSource(src)
    \/ ClearFeed
    \/ PollTick
    \/ \E responses \in AutoPollResponses : PollFeedsDone(responses, PollNow)
    \/ PollLegacyDone(LegacyResponse(0, 0))
    \/ runs < MaxRuns /\ AutoCaptureButton
    \/ \E t \in intervals : AutoTick(t)
    \/ \E r \in inflight : AnalysisDone(r, AnalysisResponse(1, 1, 0, 0))

SpecAuto == Init /\ [][AutoNext]_vars

\* Manual captures from the remote feed: the station feeds and the legacy
\* shared feed are polled, each with or without an image.
RemoteCaptureNext ==
    \/ \E src \in {"none", "pi"} : SetVideoSource(src)
    \/ ClearFeed
    \/ PollTick
    \/ \E responses \in SlotPollResponses : PollFeedsDone(responses, PollNow)
    \/ \E resp \in LegacyResponses : PollLegacyDone(resp)
    \/ \E block \in Block : sent < MaxSent /\ ManualCapture(block)
    \/ \E r \in inflight : AnalysisDone(r, AnalysisResponse(1, 1, 0, 0))

SpecRemoteCapture == Init /\ [][RemoteCaptureNext]_vars

\* captureFromFeed called while no source is selected, before and after a
\* webcam activation whose stream opens (all granted) may still complete.
NoSourceNext ==
    \/ \E src \in VideoSources : SetVideoSource(src)
    \/ ClearFeed
    \/ \E t \in webcamTasks : InitWebcamsDone(t, TRUE, 1)
    \/ \E t \in webcamTasks : StartAllWebcams(t)
    \/ \E t \in webcamTasks : StartStationWebcamDone(t, TRUE, "NotAllowedError")
    \/ \E block \in Block : videoSource = "none" /\ CaptureCall(block)

SpecNoSource == Init /\ [][NoSourceNext]_vars

\* An activation of the webcam source in which the permission probe succeeds
\* and every per-station getUserMedia succeeds or throws one of the two named
\* errors, each station on its own; the operator may switch devices.
OpenNext ==
    \/ SetVideoSource("webcam")
    \/ \E t \in webcamTasks : InitWebcamsDone(t, TRUE, MaxDevices)
    \/ \E t \in webcamTasks : StartAllWebcams(t)
    \/ \E t \in webcamTasks, ok \in BOOLEAN, e \in OpenErrorNames :
          StartStationWebcamDone(t, ok, e)
    \/ \E s \in Block, d \in 1..MaxDevices : HandleStationWebcamChange(s, d)
    \/ \E t \in webcamTasks : SettleElapsed(t)

SpecOpen == Init /\ [][OpenNext]_vars

\* The polls of the loop scenario: every frame, every frame but the brake
\* station's, none, the front station's only, or frames that are all stale.
LoopPollResponses ==
    SlotPollResponses \cup
    {[s \in Block |-> IF s = "front" THEN FeedResponse(1, PollNow - 29) ELSE FetchFailed],
     [s \in Block |-> FeedResponse(1, PollNow - 31)]}

\* The polling loop with these polls and a latest-detection fetch that may
\* fail.
PollLoopNext ==
    \/ \E src \in {"none", "pi"} : SetVideoSource(src)
    \/ ClearFeed
    \/ PollTick
    \/ \E responses \in LoopPollResponses : PollFeedsDone(responses, PollNow)
    \/ \E resp \in LegacyResponses : PollLegacyDone(resp)

SpecPollLoop == Init /\ [][PollLoopNext]_vars

\* The loop under the scheduling of the browser: an interval that is set
\* keeps firing and every fetch settles, with a response or with a failure.
SpecPollLoopFair ==
    /\ SpecPollLoop
    /\ WF_vars(PollTick)
    /\ WF_vars(\E responses \in LoopPollResponses : PollFeedsDone(responses, PollNow))
    /\ WF_vars(\E resp \in LegacyResponses : PollLegacyDone(resp))

\* The hook of the diagnostics panel and the row it follows: the row
\* changes up to version MaxVersion, every change but the last is notified or
\* not, the notification of the last one is lost; queries are answered or fail.
SensorNext ==
    \/ \E tab \in Tabs : SetActiveTab(tab)
    \/ SensorPollTick
    \/ \E f \in fetches : SensorFetchServed(f)
    \/ \E f \in fetches, ok \in BOOLEAN : SensorFetchDone(f, ok)
    \/ \E notified \in BOOLEAN :
          (notified => storedRecord + 1 < MaxVersion) /\ RecordChange(notified)
    \/ \E p \in pushes : PushDelivered(p)

SpecSensor == Init /\ [][SensorNext]_vars

\* The hook under the scheduling the claim assumes: the interval keeps
\* firing and its queries keep succeeding, that is, queries are served and
\* answered again and again, whatever number of them fails in between.
SpecSensorFair ==
    /\ SpecSensor
    /\ WF_vars(SensorPollTick)
    /\ SF_vars(\E f \in fetches : SensorFetchServed(f))
    /\ SF_vars(\E f \in fetches : SensorFetchDone(f, TRUE))

\* The answers to the captures of a run: a failure or a result with a dent.
OrderResponses == {AnalysisFailed, AnalysisResponse(1, 0, 1, 0)}

\* Captures of several stations in flight together: a run of the sequencer
\* on the remote feed sends them in the fixed order, one per station, and
\* the analysis endpoint answers them in any order.
OrderNext ==
    \/ SetVideoSource("pi")
    \/ PollTick
    \/ \E responses \in AutoPollResponses : PollFeedsDone(responses, PollNow)
    \/ PollLegacyDone(LegacyResponse(0, 0))
    \/ runs < MaxRuns /\ AutoCaptureButton
    \/ \E t \in intervals : AutoTick(t)
    \/ \E r \in inflight, resData \in OrderResponses : AnalysisDone(r, resData)

SpecOrder == Init /\ [][OrderNext]_vars

\* The answers to the uploads of the reset scenario: a failure or a result.
UploadAnalysisResponses == {AnalysisFailed, AnalysisResponse(1, 1, 0, 0)}

\* The RESET button of the station cards with or without a source, with
\* slots filled by uploads (which need no source) and the sequencer idle or
\* running.
ResetNext ==
    \/ \E src \in {"none", "webcam"} : SetVideoSource(src)
    \/ ClearFeed
    \/ \E block \in Block : sent < MaxSent /\ UploadFile(block, 1)
    \/ \E r \in inflight, resData \in UploadAnalysisResponses : AnalysisDone(r, resData)
    \/ \E block \in Block : resetBlock(block)
    \/ runs < MaxRuns /\ AutoCaptureButton
    \/ \E t \in intervals : AutoTick(t)

SpecReset == Init /\ [][ResetNext]_vars

\* startAutoCapture called in any state, also where the button would not let
\* the operator call it; at most MaxRuns calls are made in a state in which
\* neither early return applies.
StartNext ==
    \/ \E src \in {"none", "pi"} : SetVideoSource(src)
    \/ ClearFeed
    \/ PollTick
    \/ \E responses \in AutoPollResponses : PollFeedsDone(responses, PollNow)
    \/ PollLegacyDone(LegacyResponse(0, 0))
    \/ (runs < MaxRuns \/ videoSource = "none" \/ autoCapturing) /\ startAutoCapture
    \/ \E t \in intervals : AutoTick(t)
    \/ \E r \in inflight : AnalysisDone(r, AnalysisResponse(1, 1, 0, 0))

SpecStart == Init /\ [][StartNext]_vars

\* The sequencer under the scheduling of the browser: an interval that is
\* set keeps firing.
\* Auto-save in the diagnostics panel while the row of the vehicle changes:
\* the hook follows the row, the operator starts and stops auto-save, up to
\* MaxSaves saves are submitted and each is accepted, rejected or lost.
SaveNext ==
    \/ \E tab \in Tabs : SetActiveTab(tab)
    \/ SensorPollTick
    \/ \E f \in fetches : SensorFetchServed(f)
    \/ \E f \in fetches, ok \in BOOLEAN : SensorFetchDone(f, ok)
    \/ \E notified \in BOOLEAN :
          (notified => storedRecord + 1 < MaxVersion) /\ RecordChange(notified)
    \/ \E p \in pushes : PushDelivered(p)
    \/ saves < MaxSaves /\ startAutoSave
    \/ \E t \in saveIntervals : saves < MaxSaves /\ AutoSaveTick(t)
    \/ stopAutoSave
    \/ \E q \in saveRequests, outcome \in {"ok", "rejected", "error"} : SaveDone(q, outcome)

SpecSave == Init /\ [][SaveNext]_vars

\* Leaving the dashboard during remote-feed operation: the operator uses
\* LiveFeed while it is mounted and may change tab at any moment; timers and
\* requests of the browser go on whatever is mounted.
UnmountNext ==
    \/ \E tab \in Tabs : SetActiveTab(tab)
    \/ activeTab = "dashboard" /\ \E src \in {"none", "pi"} : SetVideoSource(src)
    \/ activeTab = "dashboard" /\ ClearFeed
    \/ PollTick
    \/ \E responses \in AutoPollResponses : PollFeedsDone(responses, PollNow)
    \/ PollLegacyDone(LegacyResponse(0, 0))
    \/ activeTab = "dashboard" /\ runs < MaxRuns /\ AutoCaptureButton
    \/ \E t \in intervals : AutoTick(t)
    \/ \E r \in inflight : AnalysisDone(r, AnalysisResponse(1, 1, 0, 0))

SpecUnmount == Init /\ [][UnmountNext]_vars

SpecAutoFair == SpecAuto /\ WF_vars(\E t \in intervals : AutoTick(t))

(* ------------------------------------------------------------------ *)
(* Vocabulary of the properties                                        *)
(* ------------------------------------------------------------------ *)
Outstanding(block) == {r \in inflight : r.block = block}

HoldsActiveStream(block) ==
    /\ stationWebcams[block].stream # NoStream
    /\ stationWebcams[block].stream \in liveStreams

\* The cost formula as the specification states it, on the results of the
\* four stations; 45.5 * 20 = 910.
StationCharge(result) ==
    (IF result.scratches = Undefined THEN 0 ELSE result.scratches * 300) +
    (IF result.dents = Undefined THEN 0 ELSE result.dents * 500)

ExpectedTotal(results) ==
    StationCharge(results["front"]) + StationCharge(results["left"]) +
    StationCharge(results["right"]) + StationCharge(results["brake"]) + 910 + 500

SlotResults(slots) == [b \in Block |-> slots[b].analysisResult]

\* front: 2 scratches, 1 dent; right: 1 scratch; everything else 0
IsCostExample(results) ==
    /\ results["front"].scratches = 2 /\ results["front"].dents = 1
    /\ results["right"].scratches = 1 /\ results["right"].dents = 0
    /\ results["left"].scratches = 0 /\ results["left"].dents = 0
    /\ results["brake"].scratches = 0 /\ results["brake"].dents = 0

IsPrefix(s, t) == Len(s) <= Len(t) /\ \A i \in 1..Len(s) : s[i] = t[i]

VisitOrder == <<"front", "left", "right", "brake">>

SequencerIdle ==
    /\ ~autoCapturing
    /\ currentAutoStation = "null"
    /\ autoCaptureTimerRef = 0
    /\ intervals = {}

\* A station's response carried a frame together with a timestamp less than
\* 3 seconds (30 tenths) older than the clock reading of the poll.
CarriedFreshFrame(resp, currentTime) ==
    /\ resp.ok
    /\ resp.annotatedImage # 0
    /\ resp.timestamp # NoTimestamp
    /\ currentTime - resp.timestamp < 30

(* ------------------------------------------------------------------ *)
(* Properties                                                          *)
(* ------------------------------------------------------------------ *)
\* C1: for every station, at most one analysis request is outstanding at any
\* time, across manual captures and file uploads.
C1_AtMostOneOutstanding ==
    \A b \in Block : Cardinality(Outstanding(b)) <= 1

\* C2: when the response to a request omits annotatedImage and the slot is
\* still as the capture attempt left it, then after the response is handled
\* the slot's afterImage and analysisResult are the ones from before the
\* capture attempt, on the capture path and on the upload path alike.
C2_OmittedImageLeavesSlot ==
    [][\A r \in inflight \ inflight' :
          ( /\ lastAnalysis'.ok
            /\ lastAnalysis'.annotatedImage = 0
            /\ blocks[r.block].afterImage = r.pre.afterImage
            /\ blocks[r.block].analysisResult = r.pre.analysisResult )
          => ( /\ blocks'[r.block].afterImage = r.pre.afterImage
               /\ blocks'[r.block].analysisResult = r.pre.analysisResult )]_vars

\* C3: whenever the source is not the local camera, no station holds an
\* active media stream, whatever the order in which the probe, the start
\* delay and the stream opens of an earlier activation complete.
C3_NoStreamOffWebcam ==
    videoSource # "webcam" => \A b \in Block : ~HoldsActiveStream(b)

\* C4: the stations for which a run has called captureFromFeed are always a
\* prefix of front, left, right, brake; a step adds at most one station; a
\* run completes on its own only once all four have been visited, and then
\* the timer is cleared and the sequencer is idle; and no run stays running
\* forever.
C4_AutoCaptureOrder ==
    /\ [](IsPrefix(autoLog, VisitOrder))
    /\ [][Len(autoLog') <= Len(autoLog) + 1]_vars
    /\ [](runOutcome = "completed" => autoLog = VisitOrder /\ SequencerIdle)
    /\ [][(runOutcome' = "completed" /\ runOutcome # "completed")
            => (autoLog = VisitOrder /\ autoLog' = autoLog)]_vars
    /\ []<>(runOutcome # "running")

C4_RunCompleted ==
    /\ runOutcome = "completed"
    /\ autoLog = VisitOrder
    /\ sent = 4
    /\ SequencerIdle

\* C5: every recomputation leaves the total equal to the sum over the four
\* stations of scratches*300 + dents*500, plus 910 for the brake wear rate,
\* plus 500, whatever the previous total and the crack counts were; for the
\* example inputs it is 2810.
C5_TotalIsFormula ==
    [][ /\ total_cost' = ExpectedTotal(feedAnalysis')
        /\ IsCostExample(feedAnalysis') => total_cost' = 2810 ]_vars

C5_ExampleReached ==
    /\ IsCostExample(feedAnalysis)
    /\ feedAnalysis["front"].cracks = 1
    /\ total_cost = 2810

\* C6: whenever the result of a station's slot changes, by a completed
\* analysis or by a reset, the total after the change is the cost formula
\* applied to the results the four slots then hold.
C6_TotalFollowsSlots ==
    [][SlotResults(blocks') # SlotResults(blocks)
          => total_cost' = ExpectedTotal(SlotResults(blocks'))]_vars

\* C7: once a poll has completed, a station is flagged connected exactly
\* when its response to that poll carried a frame with a timestamp less than
\* 3 seconds old, whatever its flag was before.
C7_ConnectedIffFresh ==
    lastPoll.done =>
        \A b \in Block :
            stationConnectionStatus[b].connected
                <=> CarriedFreshFrame(lastPoll.responses[b], lastPoll.currentTime)

C7_FreshAndStaleSeen ==
    /\ lastPoll.done
    /\ lastPoll.responses["front"] = FeedResponse(1, PollNow - 29)
    /\ stationConnectionStatus["front"].connected
    /\ lastPoll.responses["left"] = FeedResponse(1, PollNow - 31)
    /\ ~stationConnectionStatus["left"].connected
    /\ lastPoll.responses["right"] = FetchFailed
    /\ ~stationConnectionStatus["right"].connected

C9_StartCapturesFront ==
    autoCapturing => (autoLog # <<>> /\ autoLog[1] = "front")

\* C10: a step that takes the source to none while a run is running clears
\* the timer, the running flag and the current station; and a cancelled run
\* initiates no further capture.
C10_NoneCancelsRun ==
    /\ [][(autoCapturing /\ videoSource # "none" /\ videoSource' = "none")
            => (SequencerIdle' /\ autoLog' = autoLog)]_vars
    /\ [][(runOutcome = "cancelled" /\ runs' = runs) => autoLog' = autoLog]_vars

C10_RunCancelledMidway ==
    /\ runOutcome = "cancelled"
    /\ videoSource = "none"
    /\ Len(autoLog) = 2
    /\ sent = 2
    /\ SequencerIdle

\* C11: a step that changes the source while a run is running, to none or
\* to another source, leaves the sequencer idle; and no step initiates a
\* capture for a run whose source is no longer the one it was started under.
C11_AnySourceChangeStopsRun ==
    /\ [][(autoCapturing /\ videoSource' # videoSource) => SequencerIdle']_vars
    /\ [][(\E t \in intervals : t.env.videoSource # videoSource)
            => autoLog' = autoLog]_vars

\* C12: in every state the running flag is set exactly when the timer handle
\* is held, the handle is held exactly when its interval is set, no other
\* interval is set, and the current station is defined exactly when the run
\* is running, being then one of the four stations.
C12_RunningIffTimer ==
    /\ autoCapturing <=> autoCaptureTimerRef # 0
    /\ \A t \in intervals : t.id = autoCaptureTimerRef
    /\ autoCaptureTimerRef # 0 => \E t \in intervals : t.id = autoCaptureTimerRef
    /\ currentAutoStation # "null" <=> autoCapturing
    /\ autoCapturing => currentAutoStation \in Block

C12_RunningAtRight ==
    /\ autoCapturing
    /\ currentAutoStation = "right"
    /\ autoCaptureTimerRef # 0
    /\ Cardinality(intervals) = 1

C14_NoFrameNoCapture ==
    [][\A b \in Block :
          (videoSource = "pi" /\ stationPiFeeds[b] = NoImage)
          => ( /\ {r \in inflight' : r.block = b /\ r.via = "capture"} \subseteq inflight
               /\ (inflight' = inflight => blocks'[b] = blocks[b]) )]_vars

\* C15: while no source is selected, a call of captureFromFeed for any
\* station sends no analysis request and changes no slot: every slot stays
\* not loading and as it was, also when a station still holds a stream that
\* opened after the source was deselected.
C15_NoSourceNoCapture ==
    /\ [](lastCapture # "sent")
    /\ [][videoSource = "none" /\ lastCapture' # lastCapture
            => UNCHANGED <<blocks, inflight, sent>>]_vars
    /\ [](\A b \in Block : ~blocks[b].loading)

\* captureFromFeed was called with no source selected while a station held
\* an open stream.
C15_CalledWithLeakedStream ==
    /\ videoSource = "none"
    /\ lastCapture = "alert"
    /\ \E b \in Block : stationWebcams[b].stream # NoStream
    /\ inflight = {}

\* C16: when the analysis request of a capture fails, the handled failure
\* leaves the slot not loading and with beforeImage, afterImage and
\* analysisResult as they were before the capture started.
C16_FailureRevertsSlot ==
    [][\A r \in inflight :
          ( /\ r.via = "capture"
            /\ inflight' = inflight \ {r}
            /\ ~lastAnalysis'.ok )
          => ( /\ ~blocks'[r.block].loading
               /\ blocks'[r.block].beforeImage = r.pre.beforeImage
               /\ blocks'[r.block].afterImage = r.pre.afterImage
               /\ blocks'[r.block].analysisResult = r.pre.analysisResult )]_vars

\* The analysis and the total after the response resData to request r is
\* handled, from the analysis and the total c before it.
CostAfter(c, r, resData) ==
    IF ResponseRejected(r.via, resData)
    THEN c
    ELSE [feedAnalysis |-> updated(c.feedAnalysis, r.block, ResultOf(resData)),
          total_cost |-> updateTotalCost(updated(c.feedAnalysis, r.block, ResultOf(resData)))]

\* C17: a response modifies only the slot and the analysis of the station
\* whose capture produced it, and for two requests of different stations in
\* flight the slots, the analysis and the total cost after both responses are
\* the same whichever of the two is handled first.
C17_ResponsesCommute ==
    /\ [][\A r \in inflight : inflight' = inflight \ {r} =>
            /\ blocks' = SlotsUpdater(blocks, r, lastAnalysis')
            /\ [feedAnalysis |-> feedAnalysis', total_cost |-> total_cost'] =
                 CostAfter([feedAnalysis |-> feedAnalysis, total_cost |-> total_cost],
                           r, lastAnalysis')
            /\ \A b \in Block \ {r.block} :
                  blocks'[b] = blocks[b] /\ feedAnalysis'[b] = feedAnalysis[b]]_vars
    /\ [](\A r1, r2 \in inflight : StationIndex(r1.block) < StationIndex(r2.block) =>
            \A d1, d2 \in OrderResponses :
              LET c == [feedAnalysis |-> feedAnalysis, total_cost |-> total_cost]
              IN  /\ SlotsUpdater(SlotsUpdater(blocks, r1, d1), r2, d2) =
                     SlotsUpdater(SlotsUpdater(blocks, r2, d2), r1, d1)
                  /\ CostAfter(CostAfter(c, r1, d1), r2, d2) =
                     CostAfter(CostAfter(c, r2, d2), r1, d1))

\* The response to the capture of left, sent second, has been handled and
\* changed the total while the capture of front, sent first, is still
\* waiting for its own.
C17_LaterAnsweredFirst ==
    /\ Outstanding("front") # {}
    /\ blocks["left"].afterImage # NoImage
    /\ ~blocks["left"].loading
    /\ feedAnalysis["left"] # InitFeedEntry
    /\ feedAnalysis["front"] = InitFeedEntry

\* C18: every station has at most one live media stream at any time.
C18_OneLiveStreamPerStation ==
    \A s \in Block : Cardinality({st \in liveStreams : st.station = s}) <= 1

\* C19: after an activation of the webcam source that enumerated at least
\* one device, with no per-station selection made, the stream a station
\* holds is opened on the device of its position (device k for the k-th
\* station if it exists, else the first device), which is the device
\* recorded as the station's selected device.
C19_OpenedOnSelectedDevice ==
    switches = 0 /\ availableWebcams >= 1 =>
        \A s \in Block :
            stationWebcams[s].stream # NoStream =>
                /\ stationWebcams[s].stream.device =
                       DefaultDevice(StationIndex(s), availableWebcams)
                /\ stationWebcams[s].stream.device = stationWebcams[s].selectedDeviceId

\* C20: a failed open records its error on its own station only: the other
\* stations' bindings, the live streams and the opens still pending for the
\* other stations are untouched; the timer callback starts an open for every
\* station; and an open that succeeds leaves its station with that live
\* stream whatever errors the other stations hold.
C20_OpenFailureIsolated ==
    /\ [][\A s \in Block :
            stationWebcams[s].error = "null" /\ stationWebcams'[s].error # "null" =>
                /\ \A o \in Block \ {s} : stationWebcams'[o] = stationWebcams[o]
                /\ \A u \in webcamTasks : u.station # s => u \in webcamTasks'
                /\ liveStreams' = liveStreams]_vars
    /\ [][\A t \in webcamTasks : t.kind = "delay" /\ t \notin webcamTasks' =>
            \A s \in Block :
                \E u \in webcamTasks' : u.kind = "open" /\ u.id = t.id /\ u.station = s]_vars
    /\ [][\A st \in liveStreams' \ liveStreams :
            /\ stationWebcams'[st.station].stream = st
            /\ ~stationWebcams'[st.station].loading
            /\ \A o \in Block \ {st.station} : stationWebcams'[o] = stationWebcams[o]]_vars

\* The open of front failed with its error recorded; the other three
\* stations hold live streams and no error.
C20_OneFailedThreeLive ==
    /\ stationWebcams["front"].error # "null"
    /\ stationWebcams["front"].stream = NoStream
    /\ \A s \in Block \ {"front"} :
          /\ stationWebcams[s].stream \in liveStreams
          /\ stationWebcams[s].error = "null"

\* C21: while the source is the remote feed the polling interval stays set
\* whatever the fetches answer; every completed poll writes each station's
\* frame and connectivity flag from that station's own response, also when
\* other stations failed in it or in the poll before; and ticks keep firing.
C21_PollingNeverStops ==
    /\ [](videoSource = "pi" => pollTimer)
    /\ [][pollsInFlight' = pollsInFlight - 1 =>
            \A s \in Block :
              /\ stationPiFeeds'[s] = FeedResult(lastPoll'.responses[s]).image
              /\ stationConnectionStatus'[s] =
                    NewConnectionStatus(FeedResult(lastPoll'.responses[s]),
                                        lastPoll'.currentTime)]_vars
    /\ []<>(videoSource # "pi" \/ pollsInFlight > 0)

\* The last completed poll failed for the brake station only: the other
\* stations hold their frames and are connected, and a later tick has fired.
C21_TickAfterFailedFetch ==
    /\ videoSource = "pi"
    /\ lastPoll.done
    /\ lastPoll.responses["brake"] = FetchFailed
    /\ \A s \in Block \ {"brake"} :
          stationPiFeeds[s] # NoImage /\ stationConnectionStatus[s].connected
    /\ pollsInFlight > 0

\* C22: a completed poll in which a station's fetch failed or returned no
\* image leaves that station's cached frame as it was before the poll.
C22_FailedFetchKeepsFrame ==
    [][pollsInFlight' = pollsInFlight - 1 =>
          \A s \in Block :
              FeedResult(lastPoll'.responses[s]).image = NoImage =>
                  stationPiFeeds'[s] = stationPiFeeds[s]]_vars

\* C23: once the row has stopped changing, the notification of its last
\* change being lost, a hook that stays subscribed ends up holding the latest
\* version of the row and keeps holding it.
C23_EventuallyLatest ==
    <>[](hookRun # 0 => sensorData = storedRecord)

\* The row is at its last version, whose notification was lost; the
\* subscribed hook holds that version, no query or notification pending.
C23_CaughtUpByPoll ==
    /\ hookRun # 0
    /\ storedRecord = MaxVersion
    /\ sensorData = storedRecord
    /\ fetches = {}
    /\ pushes = {}

\* C24: a reset of a slot or a change of the source leaves the requests in
\* flight as they are, and a response that is accepted is written into the
\* slot of its station (afterImage, result, not loading) and into the cost
\* aggregate, whatever happened to the slot or the source since the capture.
C24_ResetDoesNotCancel ==
    /\ [][( \/ videoSource' # videoSource
            \/ \E b \in Block : blocks[b] # EmptyBlock /\ blocks'[b] = EmptyBlock )
          => inflight' = inflight]_vars
    /\ [][\A r \in inflight :
            inflight' = inflight \ {r} /\ ~ResponseRejected(r.via, lastAnalysis') =>
              /\ blocks'[r.block].afterImage = DataUrl(lastAnalysis'.annotatedImage)
              /\ blocks'[r.block].analysisResult = ResultOf(lastAnalysis')
              /\ ~blocks'[r.block].loading
              /\ feedAnalysis'[r.block].scratches = Nullish(lastAnalysis'.scratchCount, 0)
              /\ feedAnalysis'[r.block].dents = Nullish(lastAnalysis'.dentCount, 0)
              /\ total_cost' = updateTotalCost(feedAnalysis')]_vars

\* A slot that was reset while its request was in flight (its beforeImage is
\* empty) holds the result of the response that arrived afterwards, and the
\* cost aggregate counts it.
C24_ResultAfterReset ==
    \E b \in Block :
        /\ blocks[b].beforeImage = NoImage
        /\ blocks[b].afterImage # NoImage
        /\ blocks[b].analysisResult # EmptyResult
        /\ feedAnalysis[b] # InitFeedEntry
        /\ total_cost = updateTotalCost(feedAnalysis)

\* C25: a tick whose render holds a frame for the next station sends that
\* station's request whatever requests are still unanswered, and no run stays
\* running forever even when no response ever arrives.
C25_SequencerNeverWaits ==
    /\ [][Len(autoLog') = Len(autoLog) + 1 =>
            \A t \in intervals :
                SourceImage(autoLog'[Len(autoLog')], t.env) # NoImage =>
                    /\ sent' = sent + 1
                    /\ Cardinality(inflight') = Cardinality(inflight) + 1
                    /\ inflight \subseteq inflight']_vars
    /\ []<>(runOutcome # "running")

\* The run has completed while the requests of all four stations, one per
\* station, are still unanswered.
C25_FourInFlightRunOver ==
    /\ runOutcome = "completed"
    /\ Cardinality(inflight) = 4
    /\ \A b \in Block : Cardinality(Outstanding(b)) = 1

\* C26: with the remote feed selected, a tick of the run that visits a
\* station whose cache holds a frame at that moment sends a request carrying
\* that frame.
C26_TickUsesLatestFrame ==
    [][(videoSource = "pi" /\ Len(autoLog') = Len(autoLog) + 1) =>
          LET station == autoLog'[Len(autoLog')]
          IN  stationPiFeeds[station] # NoImage =>
                  \E r \in inflight' \ inflight :
                      /\ r.block = station
                      /\ r.beforeImage = stationPiFeeds[station]]_vars

\* C27: a step taken while the remote feed is not selected, and that does
\* not select it, leaves the cached frames and the connectivity flags of the
\* stations as they were.
C27_NoPollWriteAfterSwitch ==
    [][(videoSource # "pi" /\ videoSource' # "pi")
         => UNCHANGED <<stationPiFeeds, stationConnectionStatus>>]_vars

\* C28: in every state, the initial one included, the stored total is the
\* cost formula applied to the analysis record of the four stations.
C28_TotalAlwaysFormula == total_cost = ExpectedTotal(feedAnalysis)

\* C29: while LiveFeed is not mounted no interval of the sequencer is set
\* and no station stream is live, and no step visits a station or sends an
\* analysis request.
C29_UnmountReleasesAll ==
    /\ [](activeTab # "dashboard" => (intervals = {} /\ liveStreams = {}))
    /\ [][activeTab # "dashboard" => (autoLog' = autoLog /\ sent' = sent)]_vars

\* C30: every save of auto-save, the immediate one and the later ones,
\* submits the values the panel displays at the moment of the save.
C30_SaveSubmitsCurrent ==
    lastSave # NoSave => lastSave.submitted = lastSave.displayed

====
